---- MODULE Spec2Model ----
(***************************************************************************)
(* Model of libfn.js: the coroutine trampoline asyncExec and the sequence  *)
(* helpers zip, indexOf, arange, ifilter, first and partition.             *)
(*                                                                         *)
(* JavaScript values are records [t |-> type tag, v |-> integer payload].  *)
(***************************************************************************)
EXTENDS Integers, Sequences, FiniteSets, TLC

\* Longest routine (number of suspension/throw points) explored.
MaxSteps == 2

\* Longest input sequence given to zip and indexOf.
MaxLen == 3

\* Most input sequences given to zip.
MaxInputs == 2

\* arange is called with integers in -MaxRange..MaxRange.
MaxRange == 3

\* Longest input sequence given to partition.
MaxPartLen == 4

----------------------------------------------------------------------------
(* JavaScript values *)

Undefined == [t |-> "undefined", v |-> 0]

Num(n) == [t |-> "number", v |-> n]

\* The error a rejected pending value carries.
ErrE == [t |-> "error", v |-> 1]

\* The error a routine raises on its own ("throw" instruction).
ErrSync == [t |-> "error", v |-> 2]

\* TypeError: Cannot use 'in' operator to search for 'then' in <primitive>
TypeErrorIn == [t |-> "TypeError", v |-> 0]

\* The string a routine returns from its catch block ("Could not load.").
Fallback == [t |-> "string", v |-> 99]

PrimitiveTypes == {"number", "string", "boolean", "null", "undefined"}

\* Outcomes a pending value may settle to.
Settlements ==
  { [state |-> "fulfilled", value |-> Num(5)],
    [state |-> "fulfilled", value |-> Num(7)],
    [state |-> "rejected", value |-> ErrE] }

----------------------------------------------------------------------------
(* Routines (the generator handed to asyncExec) *)

\* One suspension point of a routine: what it yields there (a promise, a
\* plain object without 'then', a primitive) or that it throws there, and
\* what the enclosing try/catch does when an error is raised at the yield:
\* nothing ("none": no try block), return the fallback string ("return"),
\* or swallow the error and go on with the fallback as value ("continue").
Instr ==
  [op : {"promise"}, handler : {"none", "return", "continue"}]
    \cup [op : {"object", "throw"} \cup PrimitiveTypes, handler : {"none"}]

RECURSIVE SeqsUpTo(_, _)
SeqsUpTo(S, n) ==
  IF n = 0 THEN {<<>>}
  ELSE LET shorter == SeqsUpTo(S, n - 1)
       IN shorter \cup {Append(s, x) : s \in {q \in shorter : Len(q) = n - 1}, x \in S}

Routines == SeqsUpTo(Instr, MaxSteps)

RECURSIVE SumV(_)
SumV(s) == IF s = <<>> THEN 0 ELSE s[1].v + SumV(Tail(s))

\* The routine's final return value: twice what it received ("return 5*2").
RetVal(recv) == Num(2 * SumV(recv))

VARIABLES
  prog,        \* the routine: a sequence of Instr
  started,     \* asyncExec has been called
  genIterator, \* const iterator = generator(): [pc, recv, state]
  outer,       \* the promise asyncExec returns: [state, value]
  promises,    \* awaited promise k (yielded at step k): [state, value]
  registered,  \* promises on which then(resumeGenerator, throwGenerator) ran
  delivered,   \* promises whose continuation has run
  yielded,     \* history: values handed back at suspension points
  log,         \* history: resumes after the first: [mode, val, cause, at]
  escaped,     \* an exception left resumeGenerator/throwGenerator
  zipArgs,     \* zip: the iterables passed in
  zipIt,       \* zip: the generator object [state, pos], pos[i] = reads of input i
  zipOut,      \* zip: history of the tuples yielded so far
  call,        \* indexOf, arange, first: the arguments of the call
  ret,         \* indexOf, arange, first: [returned, thrown, value]
  filterArgs,  \* ifilter: [iterable, filterFn]
  filterIt,    \* ifilter: the generator object [state, i, thrown]
  filterOut,   \* ifilter: history of the elements yielded so far
  partArgs,    \* partition: [iterable, keyFn]
  partPos,     \* partition: elements the for-of loop has consumed
  partRet      \* partition: the Map ret, entries [key, items] in insertion order

asyncVars == <<prog, started, genIterator, outer, promises, registered,
               delivered, yielded, log, escaped>>

zipVars == <<zipArgs, zipIt, zipOut>>

callVars == <<call, ret>>

filterVars == <<filterArgs, filterIt, filterOut>>

partVars == <<partArgs, partPos, partRet>>

vars == <<asyncVars, zipVars, callVars, filterVars, partVars>>

PendingPromise == [state |-> "pending", value |-> Undefined]

\* The part of the state the synchronous resume chain works on.
Machine(trigger) ==
  [iterator |-> genIterator, outer |-> outer, registered |-> registered,
   yielded |-> yielded, log |-> log, trigger |-> trigger]

----------------------------------------------------------------------------
(* Promise primitives *)

\* resolve(value) of the outer promise: the first settlement wins.
resolve(m, value) ==
  IF m.outer.state = "pending"
  THEN [m EXCEPT !.outer = [state |-> "fulfilled", value |-> value]]
  ELSE m

\* reject(e) of the outer promise: the first settlement wins.
reject(m, e) ==
  IF m.outer.state = "pending"
  THEN [m EXCEPT !.outer = [state |-> "rejected", value |-> e]]
  ELSE m

\* The JS expression ('then' in value): throws on primitives.
InThen(value) ==
  [thrown |-> value.t \in PrimitiveTypes, result |-> value.t = "promise"]

----------------------------------------------------------------------------
(* Generator protocol: iterator.next(value) and iterator.throw(error) *)

\* Run the routine body from instruction k until it yields, returns or throws.
RunFrom(m, k) ==
  IF k > Len(prog)
  THEN [m |-> [m EXCEPT !.iterator.pc = k, !.iterator.state = "completed"],
        thrown |-> FALSE, err |-> Undefined,
        done |-> TRUE, value |-> RetVal(m.iterator.recv)]
  ELSE IF prog[k].op = "throw"
  THEN [m |-> [m EXCEPT !.iterator.pc = k, !.iterator.state = "completed"],
        thrown |-> TRUE, err |-> ErrSync,
        done |-> FALSE, value |-> Undefined]
  ELSE [m |-> [m EXCEPT !.iterator.pc = k, !.iterator.state = "suspendedYield",
                        !.yielded = Append(@, [t |-> prog[k].op, v |-> k])],
        thrown |-> FALSE, err |-> Undefined,
        done |-> FALSE, value |-> [t |-> prog[k].op, v |-> k]]

\* Record a resume of the suspended routine in the history.
Logged(m, mode, val) ==
  [m EXCEPT !.log = Append(@, [mode |-> mode, val |-> val,
                               cause |-> m.trigger, at |-> m.iterator.pc]),
            !.trigger = 0]

IteratorNext(m, value) ==
  CASE m.iterator.state = "suspendedStart" -> RunFrom(m, 1)
    [] m.iterator.state = "suspendedYield" ->
         LET m1 == Logged(m, "next", value)
         IN RunFrom([m1 EXCEPT !.iterator.recv = Append(@, value)],
                    m.iterator.pc + 1)
    [] OTHER -> [m |-> m, thrown |-> FALSE, err |-> Undefined,
                 done |-> TRUE, value |-> Undefined]

IteratorThrow(m, error) ==
  CASE m.iterator.state = "suspendedYield" ->
         LET m1 == Logged(m, "throw", error)
             h == prog[m.iterator.pc].handler
         IN CASE h = "return" ->
                   [m |-> [m1 EXCEPT !.iterator.state = "completed"],
                    thrown |-> FALSE, err |-> Undefined,
                    done |-> TRUE, value |-> Fallback]
              [] h = "continue" ->
                   RunFrom([m1 EXCEPT !.iterator.recv = Append(@, Fallback)],
                           m.iterator.pc + 1)
              [] OTHER ->
                   [m |-> [m1 EXCEPT !.iterator.state = "completed"],
                    thrown |-> TRUE, err |-> error,
                    done |-> FALSE, value |-> Undefined]
    [] OTHER -> [m |-> [m EXCEPT !.iterator.state = "completed"],
                 thrown |-> TRUE, err |-> error,
                 done |-> FALSE, value |-> Undefined]

----------------------------------------------------------------------------
(* The trampoline *)

\* Results of the trampoline's functions: the new state and whether an
\* exception propagated out of the call.
Returned(m) == [m |-> m, thrown |-> FALSE, err |-> Undefined]

Thrown(m, e) == [m |-> m, thrown |-> TRUE, err |-> e]

RECURSIVE processIteration(_, _)
RECURSIVE resumeGenerator(_, _)
RECURSIVE throwGenerator(_, _)

\* iteration.value.then(resumeGenerator, throwGenerator)
then(m, p) == [m EXCEPT !.registered = @ \cup {p.v}]

\* Faulty variant: registers the continuations and resumes at once (missing else).
processIteration_resumeAnyway(m, iteration) ==
  IF iteration.done
  THEN Returned(resolve(m, iteration.value))
  ELSE IF InThen(iteration.value).thrown
  THEN Thrown(m, TypeErrorIn)
  ELSE IF InThen(iteration.value).result
  THEN resumeGenerator(then(m, iteration.value), iteration.value)
  ELSE resumeGenerator(m, iteration.value)

\* Faulty variant: a finished routine does not settle the outer promise.
processIteration_noResolve(m, iteration) ==
  IF iteration.done
  THEN Returned(m)
  ELSE IF InThen(iteration.value).thrown
  THEN Thrown(m, TypeErrorIn)
  ELSE IF InThen(iteration.value).result
  THEN Returned(then(m, iteration.value))
  ELSE resumeGenerator(m, iteration.value)

processIteration(m, iteration) ==
  IF iteration.done
  THEN Returned(resolve(m, iteration.value))
  ELSE IF InThen(iteration.value).thrown
  THEN Thrown(m, TypeErrorIn)
  ELSE IF InThen(iteration.value).result
  THEN Returned(then(m, iteration.value))
  ELSE resumeGenerator(m, iteration.value)

\* Faulty variant: iterator.next() is called without the settled value.
resumeGenerator_dropValue(m, value) ==
  LET it == IteratorNext(m, Undefined)
  IN IF it.thrown
     THEN Returned(reject(it.m, it.err))
     ELSE LET p == processIteration(it.m, it)
          IN IF p.thrown THEN Returned(reject(p.m, p.err)) ELSE p

\* Faulty variant: the resume step is not wrapped in try/catch.
resumeGenerator_noTry(m, value) ==
  LET it == IteratorNext(m, value)
  IN IF it.thrown
     THEN Thrown(it.m, it.err)
     ELSE processIteration(it.m, it)

resumeGenerator(m, value) ==
  LET it == IteratorNext(m, value)
  IN IF it.thrown
     THEN Returned(reject(it.m, it.err))
     ELSE LET p == processIteration(it.m, it)
          IN IF p.thrown THEN Returned(reject(p.m, p.err)) ELSE p

\* Faulty variant: the failure is sent to the outer promise, not into the routine.
throwGenerator_rejectDirect(m, error) ==
  Returned(reject(m, error))

\* Faulty variant: the failure is fed to the routine as if it were a result.
throwGenerator_asValue(m, error) ==
  resumeGenerator(m, error)

throwGenerator(m, error) ==
  LET it == IteratorThrow(m, error)
  IN IF it.thrown
     THEN Returned(reject(it.m, it.err))
     ELSE LET p == processIteration(it.m, it)
          IN IF p.thrown THEN Returned(reject(p.m, p.err)) ELSE p

----------------------------------------------------------------------------
(* Actions of one asyncExec run *)

Commit(r) ==
  /\ genIterator' = r.m.iterator
  /\ outer' = r.m.outer
  /\ registered' = r.m.registered
  /\ yielded' = r.m.yielded
  /\ log' = r.m.log
  /\ escaped' = (escaped \/ r.thrown)

AsyncInit ==
  /\ prog \in Routines
  /\ started = FALSE
  /\ genIterator = [pc |-> 0, recv |-> <<>>, state |-> "suspendedStart"]
  /\ outer = [state |-> "pending", value |-> Undefined]
  /\ promises = [k \in 1..MaxSteps |-> PendingPromise]
  /\ registered = {}
  /\ delivered = {}
  /\ yielded = <<>>
  /\ log = <<>>
  /\ escaped = FALSE

\* asyncExec(generator): create the iterator and take the first step.
asyncExec ==
  /\ ~started
  /\ started' = TRUE
  /\ Commit(resumeGenerator(Machine(0), Undefined))
  /\ UNCHANGED <<prog, promises, delivered, zipVars, callVars, filterVars, partVars>>

\* The awaited promise k settles (by whoever owns it).
Settle(k, s) ==
  /\ k \in registered
  /\ promises[k].state = "pending"
  /\ promises' = [promises EXCEPT ![k] = s]
  /\ UNCHANGED <<prog, started, genIterator, outer, registered, delivered,
                 yielded, log, escaped, zipVars, callVars, filterVars, partVars>>

\* The job queue runs the continuation registered on the settled promise k.
Deliver(k) ==
  /\ k \in registered \ delivered
  /\ promises[k].state # "pending"
  /\ delivered' = delivered \cup {k}
  /\ IF promises[k].state = "fulfilled"
     THEN Commit(resumeGenerator(Machine(k), promises[k].value))
     ELSE Commit(throwGenerator(Machine(k), promises[k].value))
  /\ UNCHANGED <<prog, started, promises, zipVars, callVars, filterVars, partVars>>

\* zip has not been called.
ZipIdle ==
  /\ zipArgs = <<>>
  /\ zipIt = [state |-> "completed", pos |-> <<>>]
  /\ zipOut = <<>>

NoRet == [returned |-> FALSE, thrown |-> FALSE, value |-> Undefined]

\* No call of indexOf or arange is under way.
CallIdle ==
  /\ call = <<>>
  /\ ret = NoRet

\* ifilter has not been called.
FilterIdle ==
  /\ filterArgs = <<>>
  /\ filterIt = [state |-> "completed", i |-> 0, thrown |-> FALSE]
  /\ filterOut = <<>>

\* partition has not been called.
PartIdle ==
  /\ partArgs = <<>>
  /\ partPos = 0
  /\ partRet = <<>>

Init == AsyncInit /\ ZipIdle /\ CallIdle /\ FilterIdle /\ PartIdle

Next ==
  \/ asyncExec
  \/ \E k \in 1..MaxSteps, s \in Settlements : Settle(k, s)
  \/ \E k \in 1..MaxSteps : Deliver(k)

Spec == Init /\ [][Next]_vars

\* Fairness: the job queue runs every continuation of a settled promise, and
\* a pending value is, by definition, one that eventually settles.
FairSpec ==
  /\ Spec
  /\ \A k \in 1..MaxSteps : WF_vars(Deliver(k))
  /\ \A k \in 1..MaxSteps : WF_vars(\E s \in Settlements : Settle(k, s))

----------------------------------------------------------------------------
(* Properties of asyncExec *)

Done == outer.state = "fulfilled"

Failed == outer.state = "rejected"

Terminal == Done \/ Failed

\* The routine only awaits pending values, and all settled so far succeeded.
AwaitsOnly ==
  /\ \A k \in 1..Len(prog) : prog[k].op = "promise"
  /\ \A k \in 1..Len(prog) : promises[k].state # "rejected"

RECURSIVE SumSettled(_)
SumSettled(n) == IF n = 0 THEN 0 ELSE promises[n].value.v + SumSettled(n - 1)

\* C1: a routine that awaits pending values which all settle successfully is
\* resumed at each suspension point with exactly the value that pending value
\* settled to, and once every one was delivered the outer result is settled
\* successfully to the routine's return value (twice what it received).
C1_ResumeWithSettledValue ==
  AwaitsOnly =>
    /\ \A k \in delivered :
         /\ Len(log) >= k
         /\ log[k] = [mode |-> "next", val |-> promises[k].value,
                      cause |-> k, at |-> k]
         /\ genIterator.recv[k] = promises[k].value
    /\ delivered = 1..Len(prog) /\ started =>
         outer = [state |-> "fulfilled",
                  value |-> Num(2 * SumSettled(Len(prog)))]
    /\ delivered # 1..Len(prog) => outer.state = "pending"

\* The documented scenario: await a value resolving to 5, return 5*2.
C1_Witness ==
  /\ Len(prog) = 1 /\ prog[1].op = "promise"
  /\ 1 \in delivered
  /\ promises[1] = [state |-> "fulfilled", value |-> Num(5)]
  /\ outer = [state |-> "fulfilled", value |-> Num(10)]

\* C2: when an awaited pending value settles with failure E, E is raised in
\* the routine at the suspension point where it is paused; if the routine
\* catches it and returns a fallback value, the run is Done and the outer
\* result is settled successfully to the fallback, not to failure.
C2_CaughtFailureRecovers ==
  \A k \in delivered :
    promises[k].state = "rejected" =>
      /\ \E n \in 1..Len(log) :
           log[n] = [mode |-> "throw", val |-> promises[k].value,
                     cause |-> k, at |-> k]
      /\ prog[k].handler = "return" =>
           outer = [state |-> "fulfilled", value |-> Fallback]

C2_Witness ==
  \E k \in delivered :
    /\ promises[k] = [state |-> "rejected", value |-> ErrE]
    /\ prog[k].handler = "return"
    /\ outer = [state |-> "fulfilled", value |-> Fallback]

\* C3: when an awaited pending value settles with failure E and the routine
\* does not catch it, the run is Failed and the outer result is settled to
\* failure with that same E, never successfully.
C3_UncaughtFailureFails ==
  \A k \in delivered :
    promises[k].state = "rejected" /\ prog[k].handler = "none" =>
      outer = [state |-> "rejected", value |-> promises[k].value]

C3_Witness ==
  \E k \in delivered :
    /\ promises[k] = [state |-> "rejected", value |-> ErrE]
    /\ prog[k].handler = "none"
    /\ k > 1
    /\ outer = [state |-> "rejected", value |-> ErrE]

\* The promises with continuations registered that have not run yet.
InFlight == registered \ delivered

\* C4: at most one awaited pending value is in flight; while one is, the
\* routine stays paused at the suspension point that yielded it; and the Nth
\* resume is caused by the settlement of the Nth awaited pending value and
\* carries its outcome.
C4_OneInFlightOrderedResumes ==
  /\ Cardinality(InFlight) <= 1
  /\ Cardinality({k \in registered : promises[k].state = "pending"}) <= 1
  /\ Len(log) <= Len(yielded) /\ Len(yielded) <= Len(log) + 1
  /\ \A k \in InFlight :
       /\ genIterator.state = "suspendedYield" /\ genIterator.pc = k
       /\ Len(yielded) = Len(log) + 1
       /\ yielded[Len(yielded)] = [t |-> "promise", v |-> k]
  /\ \A n \in 1..Len(log) :
       yielded[n].t = "promise" =>
         LET k == yielded[n].v
         IN /\ log[n].cause = k /\ log[n].at = k
            /\ k \in delivered
            /\ promises[k].state # "pending"
            /\ log[n].val = promises[k].value
            /\ log[n].mode =
                 IF promises[k].state = "fulfilled" THEN "next" ELSE "throw"
  /\ \A n \in 1..Len(log) : log[n].cause # 0 => yielded[n].t = "promise"

\* Two pending values awaited one after the other, both resumed.
C4_Witness ==
  /\ Len(log) >= 2
  /\ log[1].cause = 1 /\ log[2].cause = 2
  /\ log[1].mode = "throw" /\ log[2].mode = "next"

\* C5: a value without a 'then' member handed back at a suspension point,
\* plain object or primitive, is fed back to the routine at once, in the
\* same step and without registering continuations, and the run does not
\* fail because of it.
C5_NonPendingResumesImmediately ==
  \A n \in 1..Len(yielded) :
    yielded[n].t # "promise" =>
      /\ Len(log) >= n
      /\ log[n] = [mode |-> "next", val |-> yielded[n],
                   cause |-> 0, at |-> yielded[n].v]
      /\ yielded[n].v \notin registered
      /\ outer # [state |-> "rejected", value |-> TypeErrorIn]

\* The routine stopped by raising an error of its own.
RoutineThrew ==
  /\ genIterator.state = "completed"
  /\ genIterator.pc \in 1..Len(prog)
  /\ prog[genIterator.pc].op = "throw"

\* C6: a failure the routine raises during a resume step, the first step
\* included, makes the run Failed with that error as the outer failure, and
\* no exception leaves the trampoline.
C6_SyncFailureCaptured ==
  /\ ~escaped
  /\ RoutineThrew => outer = [state |-> "rejected", value |-> ErrSync]

\* The routine raises in the step resumed by a settled pending value.
C6_Witness ==
  /\ RoutineThrew
  /\ genIterator.pc > 1 /\ (genIterator.pc - 1) \in delivered
  /\ outer = [state |-> "rejected", value |-> ErrSync]

----------------------------------------------------------------------------
(* Sequence helpers *)

\* Not-a-number, a value of type number that is not equal to itself.
NaN == [t |-> "NaN", v |-> 0]

False == [t |-> "boolean", v |-> 0]

\* The global isNaN() on the values used here.
isNaN(x) == x.t \in {"NaN", "undefined"}

\* The === operator.
StrictEquals(a, b) == a = b /\ a.t # "NaN"

\* An idle asyncExec run, for the specifications of the sequence helpers.
AsyncIdle ==
  /\ prog = <<>>
  /\ started = FALSE
  /\ genIterator = [pc |-> 0, recv |-> <<>>, state |-> "suspendedStart"]
  /\ outer = [state |-> "pending", value |-> Undefined]
  /\ promises = [k \in 1..MaxSteps |-> PendingPromise]
  /\ registered = {}
  /\ delivered = {}
  /\ yielded = <<>>
  /\ log = <<>>
  /\ escaped = FALSE

\* Test functions handed to all(): iteration => iteration.done.
CallTest(fn, i) ==
  CASE fn = "iteration.done" -> i.done

\* all(iterable, fn) with a test function: false at the first element that
\* fails the test, true otherwise.
RECURSIVE all(_, _)
all(iterable, fn) ==
  IF iterable = <<>> THEN TRUE
  ELSE IF ~CallTest(fn, Head(iterable)) THEN FALSE
  ELSE all(Tail(iterable), fn)

----------------------------------------------------------------------------
(* zip *)

ZipElems == {Num(1), Num(2)}

ZipInit ==
  /\ zipArgs \in SeqsUpTo(SeqsUpTo(ZipElems, MaxLen), MaxInputs)
  /\ zipIt = [state |-> "suspendedStart", pos |-> [i \in 1..Len(zipArgs) |-> 0]]
  /\ zipOut = <<>>
  /\ AsyncIdle /\ CallIdle /\ FilterIdle /\ PartIdle

\* itr.next() of the array iterator of input i that was read n times.
ArrayIteratorNext(a, n) ==
  IF n < Len(a)
  THEN [value |-> a[n + 1], done |-> FALSE]
  ELSE [value |-> Undefined, done |-> TRUE]

\* One next() on the generator zip(...zipArgs): one round of the for loop.
ZipNext ==
  /\ zipIt.state # "completed"
  /\ LET iterations ==
           [i \in 1..Len(zipArgs) |-> ArrayIteratorNext(zipArgs[i], zipIt.pos[i])]
         pos == [i \in 1..Len(zipArgs) |->
                   IF iterations[i].done THEN zipIt.pos[i] ELSE zipIt.pos[i] + 1]
     IN IF ~all(iterations, "iteration.done")
        THEN /\ zipOut' = Append(zipOut,
                            [i \in 1..Len(zipArgs) |-> iterations[i].value])
             /\ zipIt' = [state |-> "suspendedYield", pos |-> pos]
        ELSE /\ zipOut' = zipOut
             /\ zipIt' = [state |-> "completed", pos |-> pos]
  /\ UNCHANGED <<zipArgs, asyncVars, callVars, filterVars, partVars>>

NextZip == ZipNext

SpecZip == ZipInit /\ [][NextZip]_vars

RECURSIVE MinLen(_)
MinLen(ss) ==
  IF Len(ss) = 1 THEN Len(ss[1])
  ELSE LET r == MinLen(Tail(ss))
       IN IF Len(ss[1]) < r THEN Len(ss[1]) ELSE r

\* C8: zip yields tuples of the elements at the same position of every
\* input, never a placeholder for an exhausted input, and is exhausted after
\* exactly min(length of the inputs) tuples.
C8_ZipStopsAtShortest ==
  Len(zipArgs) >= 1 =>
    /\ \A n \in 1..Len(zipOut) :
         \A i \in 1..Len(zipArgs) :
           /\ n <= Len(zipArgs[i])
           /\ zipOut[n][i] = zipArgs[i][n]
    /\ Len(zipOut) <= MinLen(zipArgs)
    /\ zipIt.state = "completed" => Len(zipOut) = MinLen(zipArgs)

----------------------------------------------------------------------------
(* indexOf *)

IxElems == {Num(1), Num(2), NaN}

\* Equality functions a caller may pass: x => x === 1, x => x === 2.
EqualsFns == {"isOne", "isTwo"}

Apply(fn, x) ==
  CASE fn = "isOne" -> StrictEquals(x, Num(1))
    [] fn = "isTwo" -> StrictEquals(x, Num(2))

\* Arrays have Symbol.iterator, length and indexOf; array-likes only length;
\* other iterables (generators, sets) only Symbol.iterator.
IterableKinds == {"array", "arraylike", "iterable"}

\* iterator(iterable): the elements the returned cursor walks, or TypeError.
iterator(iterable) ==
  IF iterable.kind \in {"array", "iterable"}
  THEN [thrown |-> FALSE, items |-> iterable.items]
  ELSE IF iterable.kind = "arraylike"
  THEN [thrown |-> FALSE, items |-> iterable.items]
  ELSE [thrown |-> TRUE, items |-> <<>>]

\* let i = 0; for (x of ...) { if (fn(item)) return i; else i++ } return false
RECURSIVE EqualsFnLoop(_, _, _, _)
EqualsFnLoop(items, i, item, fn) ==
  IF items = <<>> THEN False
  ELSE LET x == Head(items)
       IN IF Apply(fn, item) THEN Num(i)
          ELSE EqualsFnLoop(Tail(items), i + 1, item, fn)

\* let i = 0; for (x of ...) { if (isNaN(item)) return i; else i++ } return false
RECURSIVE NaNLoop(_, _, _)
NaNLoop(items, i, item) ==
  IF items = <<>> THEN False
  ELSE LET x == Head(items)
       IN IF isNaN(item) THEN Num(i)
          ELSE NaNLoop(Tail(items), i + 1, item)

\* let i = 0; for (x of ...) { if (item === x) return i; else i++ } return false
RECURSIVE StrictLoop(_, _, _)
StrictLoop(items, i, item) ==
  IF items = <<>> THEN False
  ELSE LET x == Head(items)
       IN IF StrictEquals(item, x) THEN Num(i)
          ELSE StrictLoop(Tail(items), i + 1, item)

\* Array.prototype.indexOf: -1 when absent.
NativeIndexOf(items, item) ==
  LET r == StrictLoop(items, 0, item)
  IN IF r = False THEN Num(-1) ELSE r

indexOf(iterable, item, fn) ==
  IF fn # "undefined"
  THEN EqualsFnLoop(iterator(iterable).items, 0, item, fn)
  ELSE IF isNaN(item)
  THEN NaNLoop(iterator(iterable).items, 0, item)
  ELSE IF iterable.kind = "array"
  THEN LET index == NativeIndexOf(iterable.items, item)
       IN IF index.v < 0 THEN False ELSE index
  ELSE StrictLoop(iterator(iterable).items, 0, item)

IndexOfInit ==
  /\ call \in [iterable : [kind : IterableKinds, items : SeqsUpTo(IxElems, MaxLen)],
               item : IxElems \cup {Num(9)},
               fn : {"undefined"} \cup EqualsFns]
  /\ ret = NoRet
  /\ AsyncIdle /\ ZipIdle /\ FilterIdle /\ PartIdle

IndexOfCall ==
  /\ ~ret.returned
  /\ ret' = [returned |-> TRUE, thrown |-> FALSE,
             value |-> indexOf(call.iterable, call.item, call.fn)]
  /\ UNCHANGED <<call, asyncVars, zipVars, filterVars, partVars>>

NextIndexOf == IndexOfCall

SpecIndexOf == IndexOfInit /\ [][NextIndexOf]_vars

\* Whether candidate x matches the item under the selected comparison mode.
Matches(x, item, fn) ==
  IF fn # "undefined" THEN Apply(fn, x)
  ELSE IF item = NaN THEN x = NaN
  ELSE x = item

\* C9: indexOf returns the 0-based position of the first element matching
\* the item under the selected comparison mode (equals_fn on the candidate,
\* not-a-number test for a not-a-number item, strict equality otherwise),
\* and the not-found sentinel false when no element matches.
C9_IndexOfFirstMatch ==
  ret.returned =>
    LET items == call.iterable.items
        hits == {i \in 1..Len(items) : Matches(items[i], call.item, call.fn)}
    IN /\ ~ret.thrown
       /\ hits = {} => ret.value = False
       /\ hits # {} =>
            /\ ret.value.t = "number"
            /\ ret.value.v + 1 \in hits
            /\ \A i \in hits : ret.value.v + 1 <= i

----------------------------------------------------------------------------
(* arange *)

\* Mapping functions a caller may pass: v => v*v and (v, i) => v + i.
StepFns == {"square", "plusOrdinal"}

Fn(name) == [t |-> "function", v |-> name]

ApplyStep(fn, val, i) ==
  CASE fn.v = "square" -> Num(val * val)
    [] fn.v = "plusOrdinal" -> Num(val + i)

\* typeof(args[i]), undefined past the end of the argument list.
TypeOfArg(args, i) == IF i < Len(args) THEN args[i + 1].t ELSE "undefined"

\* new Array(n): n holes, or RangeError: Invalid array length.
NewArray(n) ==
  IF n < 0
  THEN [thrown |-> TRUE, value |-> <<>>]
  ELSE [thrown |-> FALSE, value |-> [i \in 1..n |-> Undefined]]

\* ret[i] = x
ArraySet(a, i, x) ==
  IF i < Len(a) THEN [a EXCEPT ![i + 1] = x] ELSE Append(a, x)

\* for (let i = 0, val = start; val < end; i++, val++) ret[i] = ...
RECURSIVE ArangeLoop(_, _, _, _, _)
ArangeLoop(a, i, val, end, fn) ==
  IF val < end
  THEN ArangeLoop(ArraySet(a, i, IF fn = Undefined THEN Num(val)
                                  ELSE ApplyStep(fn, val, i)),
                  i + 1, val + 1, end, fn)
  ELSE a

arange(args) ==
  LET shifted == IF TypeOfArg(args, 1) = "number" THEN 2 ELSE 1
      start == IF TypeOfArg(args, 1) = "number" THEN args[1].v ELSE 0
      end == IF TypeOfArg(args, 1) = "number" THEN args[2].v ELSE args[1].v
      rest == SubSeq(args, shifted + 1, Len(args))
      fn == IF TypeOfArg(rest, 0) = "function" THEN rest[1] ELSE Undefined
      array == NewArray(end - start)
  IN IF array.thrown
     THEN [returned |-> TRUE, thrown |-> TRUE, value |-> <<>>]
     ELSE [returned |-> TRUE, thrown |-> FALSE,
           value |-> ArangeLoop(array.value, 0, start, end, fn)]

RangeInts == {Num(n) : n \in -MaxRange..MaxRange}

ArangeInit ==
  /\ call \in {<<e>> : e \in RangeInts}
         \cup {<<s, e>> : s \in RangeInts, e \in RangeInts}
         \cup {<<e, Fn(f)>> : e \in RangeInts, f \in StepFns}
         \cup {<<s, e, Fn(f)>> : s \in RangeInts, e \in RangeInts, f \in StepFns}
  /\ ret = NoRet
  /\ AsyncIdle /\ ZipIdle /\ FilterIdle /\ PartIdle

ArangeCall ==
  /\ ~ret.returned
  /\ ret' = arange(call)
  /\ UNCHANGED <<call, asyncVars, zipVars, filterVars, partVars>>

NextArange == ArangeCall

SpecArange == ArangeInit /\ [][NextArange]_vars

\* The start, end and mapping function a call of arange means.
CallStart == IF Len(call) >= 2 /\ call[2].t = "number" THEN call[1].v ELSE 0

CallEnd == IF Len(call) >= 2 /\ call[2].t = "number" THEN call[2].v ELSE call[1].v

CallStepFn == IF call[Len(call)].t = "function" THEN call[Len(call)] ELSE Undefined

\* C10: for all integers start and end, arange returns the sequence of
\* length max(0, end - start) holding start, start+1, ..., end-1 (or step_fn
\* of each value and its ordinal), empty when end <= start, and never raises.
C10_ArangeNeverRaises ==
  ret.returned =>
    /\ ~ret.thrown
    /\ Len(ret.value) = (IF CallEnd > CallStart THEN CallEnd - CallStart ELSE 0)
    /\ \A i \in 1..Len(ret.value) :
         ret.value[i] = IF CallStepFn = Undefined
                        THEN Num(CallStart + i - 1)
                        ELSE ApplyStep(CallStepFn, CallStart + i - 1, i - 1)

----------------------------------------------------------------------------
(* ifilter *)

\* The members of the object fn, on which this.<name>(...) can be called.
FnMethods ==
  {"all", "any", "arange", "asyncExec", "concat", "first", "iterator",
   "indexOf", "imap", "irange", "ifilter", "forEach", "getPrototypes", "last",
   "logError", "partition", "setsAreEqual", "timeout", "zip"}

\* TypeError: this.iterable is not a function
TypeErrorNotFunction == [t |-> "TypeError", v |-> 1]

FilterElems == {Num(1), Num(2)}

\* Predicates a caller may pass: x => x % 2 === 1 and (x, i) => i % 2 === 0.
FilterFns == {"isOdd", "evenOrdinal"}

ApplyFilter(filterFn, x, i) ==
  CASE filterFn = "isOdd" -> x.v % 2 = 1
    [] filterFn = "evenOrdinal" -> i % 2 = 0

\* The loop of ifilter from ordinal i: the ordinal of the next element the
\* predicate accepts, or -1 when the source is exhausted first.
RECURSIVE FilterLoop(_, _, _)
FilterLoop(items, i, filterFn) ==
  IF i >= Len(items) THEN -1
  ELSE IF ApplyFilter(filterFn, items[i + 1], i) THEN i
  ELSE FilterLoop(items, i + 1, filterFn)

IfilterInit ==
  /\ filterArgs \in [iterable : [kind : IterableKinds,
                                 items : SeqsUpTo(FilterElems, MaxLen)],
                     filterFn : FilterFns]
  /\ filterIt = [state |-> "suspendedStart", i |-> 0, thrown |-> FALSE]
  /\ filterOut = <<>>
  /\ AsyncIdle /\ ZipIdle /\ CallIdle /\ PartIdle

\* One next() on the generator ifilter(iterable, filterFn).  The first one
\* evaluates this.iterable(iterable) before the loop starts.
IfilterNext ==
  /\ filterIt.state # "completed"
  /\ IF filterIt.state = "suspendedStart" /\ "iterable" \notin FnMethods
     THEN /\ filterIt' = [state |-> "completed", i |-> 0, thrown |-> TRUE]
          /\ filterOut' = filterOut
     ELSE LET items == iterator(filterArgs.iterable).items
              from == IF filterIt.state = "suspendedStart"
                      THEN 0 ELSE filterIt.i + 1
              j == FilterLoop(items, from, filterArgs.filterFn)
          IN IF j >= 0
             THEN /\ filterOut' = Append(filterOut, items[j + 1])
                  /\ filterIt' = [state |-> "suspendedYield", i |-> j,
                                  thrown |-> FALSE]
             ELSE /\ filterOut' = filterOut
                  /\ filterIt' = [state |-> "completed", i |-> Len(items),
                                  thrown |-> FALSE]
  /\ UNCHANGED <<filterArgs, asyncVars, zipVars, callVars, partVars>>

NextIfilter == IfilterNext

SpecIfilter == IfilterInit /\ [][NextIfilter]_vars

\* The elements of items, from ordinal i on, that the predicate accepts.
RECURSIVE Accepted(_, _, _)
Accepted(items, i, filterFn) ==
  IF i >= Len(items) THEN <<>>
  ELSE IF ApplyFilter(filterFn, items[i + 1], i)
  THEN <<items[i + 1]>> \o Accepted(items, i + 1, filterFn)
  ELSE Accepted(items, i + 1, filterFn)

\* C11: ifilter yields, in source order, exactly the elements for which
\* predicate(element, ordinal in the source) is truthy, and pulling from it
\* over an iterable or array-like does not fail unless the predicate fails.
C11_IfilterYieldsAccepted ==
  LET want == Accepted(filterArgs.iterable.items, 0, filterArgs.filterFn)
  IN filterArgs # <<>> =>
       /\ ~filterIt.thrown
       /\ Len(filterOut) <= Len(want)
       /\ filterOut = SubSeq(want, 1, Len(filterOut))
       /\ filterIt.state = "completed" => filterOut = want

----------------------------------------------------------------------------
(* first *)

\* Optional.of(x): a present Optional holding x.
OptionalOf(x) == [present |-> TRUE, value |-> x]

\* Optional.ofNull(): the empty Optional.
OptionalOfNull == [present |-> FALSE, value |-> Undefined]

\* TypeError: Object ... is not iterable
TypeErrorNotIterable == [t |-> "TypeError", v |-> 2]

\* The values first is called with: arrays, other iterables, array-likes
\* (length and indexed elements, no Symbol.iterator) and plain objects that
\* have neither elements nor Symbol.iterator.
FirstInputs ==
  [kind : IterableKinds, items : SeqsUpTo(IxElems, MaxLen)]
    \cup {[kind |-> "object", items |-> <<>>]}

\* (Symbol.iterator in iterable)
HasSymbolIterator(iterable) == iterable.kind \in {"array", "iterable"}

\* (0 in iterable): the value has an element at index 0.
HasIndexZero(iterable) ==
  iterable.kind \in {"array", "arraylike"} /\ Len(iterable.items) >= 1

first(iterable) ==
  IF HasSymbolIterator(iterable)
  THEN IF iterable.items # <<>>
       THEN [returned |-> TRUE, thrown |-> FALSE,
             value |-> OptionalOf(iterable.items[1])]
       ELSE [returned |-> TRUE, thrown |-> FALSE, value |-> OptionalOfNull]
  ELSE IF HasIndexZero(iterable)
  THEN [returned |-> TRUE, thrown |-> FALSE,
        value |-> OptionalOf(iterable.items[1])]
  ELSE [returned |-> TRUE, thrown |-> TRUE, value |-> TypeErrorNotIterable]

FirstInit ==
  /\ call \in [iterable : FirstInputs]
  /\ ret = NoRet
  /\ AsyncIdle /\ ZipIdle /\ FilterIdle /\ PartIdle

FirstCall ==
  /\ ~ret.returned
  /\ ret' = first(call.iterable)
  /\ UNCHANGED <<call, asyncVars, zipVars, filterVars, partVars>>

NextFirst == FirstCall

SpecFirst == FirstInit /\ [][NextFirst]_vars

\* C12: first returns a present Optional holding the element at position 0
\* of every non-empty sequence, the empty Optional for every empty sequence
\* (empty iterable and empty array-like alike), and fails with TypeError
\* only for a value with neither indexed access nor the iteration capability.
C12_FirstOfEverySequence ==
  ret.returned =>
    IF call.iterable.kind = "object"
    THEN ret.thrown
    ELSE /\ ~ret.thrown
         /\ call.iterable.items # <<>> =>
              ret.value = [present |-> TRUE, value |-> call.iterable.items[1]]
         /\ call.iterable.items = <<>> =>
              ret.value = [present |-> FALSE, value |-> Undefined]

----------------------------------------------------------------------------
(* partition *)

PartElems == {Num(1), Num(2), Num(3), Num(4)}

\* Key functions a caller may pass: x => x % 2 and x => x.
KeyFns == {"mod2", "identity"}

ApplyKey(keyFn, x) ==
  CASE keyFn = "mod2" -> Num(x.v % 2)
    [] keyFn = "identity" -> x

\* A Map is the sequence of its entries [key, items] in insertion order.

\* ret.has(key)
MapHas(map, key) == \E e \in 1..Len(map) : map[e].key = key

\* ret.get(key).push(x)
MapGetPush(map, key, x) ==
  [e \in 1..Len(map) |->
     IF map[e].key = key
     THEN [key |-> key, items |-> Append(map[e].items, x)]
     ELSE map[e]]

\* ret.set(key, value): a new key goes last, an old key keeps its place.
MapSet(map, key, value) ==
  IF MapHas(map, key)
  THEN [e \in 1..Len(map) |->
          IF map[e].key = key THEN [key |-> key, items |-> value] ELSE map[e]]
  ELSE Append(map, [key |-> key, items |-> value])

\* Faulty variant: every element starts a fresh group (no ret.has test).
partitionBody_alwaysSet(map, x, keyFn) ==
  MapSet(map, ApplyKey(keyFn, x), <<x>>)

\* The body of partition's for-of loop for the element x.
partitionBody(map, x, keyFn) ==
  LET key == ApplyKey(keyFn, x)
  IN IF MapHas(map, key)
     THEN MapGetPush(map, key, x)
     ELSE MapSet(map, key, <<x>>)

PartitionInit ==
  /\ partArgs \in [iterable : SeqsUpTo(PartElems, MaxPartLen), keyFn : KeyFns]
  /\ partPos = 0
  /\ partRet = <<>>
  /\ AsyncIdle /\ ZipIdle /\ CallIdle /\ FilterIdle

\* One round of the for-of loop of partition.
PartitionStep ==
  /\ partArgs # <<>>
  /\ partPos < Len(partArgs.iterable)
  /\ partRet' = partitionBody(partRet, partArgs.iterable[partPos + 1],
                              partArgs.keyFn)
  /\ partPos' = partPos + 1
  /\ UNCHANGED <<partArgs, asyncVars, zipVars, callVars, filterVars>>

NextPartition == PartitionStep

SpecPartition == PartitionInit /\ [][NextPartition]_vars

\* The key of the i-th element of the source.
KeyAt(i) == ApplyKey(partArgs.keyFn, partArgs.iterable[i])

\* The position in the source where the key first occurs among the scanned.
FirstAt(key) ==
  CHOOSE i \in 1..partPos :
    KeyAt(i) = key /\ \A j \in 1..(i - 1) : KeyAt(j) # key

\* C13: after every step of partition's pass, and in its result, no group is
\* empty, the keys stand in the order of their first occurrence in the
\* source, each group lists its members in source order, and every scanned
\* element is exactly once in the group of key_fn(element).
C13_PartitionGroups ==
  partArgs # <<>> =>
    LET scanned == SubSeq(partArgs.iterable, 1, partPos)
    IN /\ \A e \in 1..Len(partRet) : partRet[e].items # <<>>
       /\ \A i \in 1..partPos : \E e \in 1..Len(partRet) : partRet[e].key = KeyAt(i)
       /\ \A e \in 1..Len(partRet) : \E i \in 1..partPos : KeyAt(i) = partRet[e].key
       /\ \A e, f \in 1..Len(partRet) :
            e < f => /\ partRet[e].key # partRet[f].key
                     /\ FirstAt(partRet[e].key) < FirstAt(partRet[f].key)
       /\ \A e \in 1..Len(partRet) :
            partRet[e].items =
              SelectSeq(scanned,
                        LAMBDA x : ApplyKey(partArgs.keyFn, x) = partRet[e].key)

\* partition([1,2,3,4], x => x % 2) gives 1 -> [1,3] then 0 -> [2,4].
C13_Witness ==
  /\ partArgs = [iterable |-> <<Num(1), Num(2), Num(3), Num(4)>>,
                 keyFn |-> "mod2"]
  /\ partPos = 4
  /\ partRet = << [key |-> Num(1), items |-> <<Num(1), Num(3)>>],
                  [key |-> Num(0), items |-> <<Num(2), Num(4)>>] >>

====
